---- MODULE Spec2Model ----
(***************************************************************************)
(* Model of range_repair.py: the sub-range generator, the range            *)
(* termination lookup and the batch dispatch / retry loop of repair().     *)
(***************************************************************************)
EXTENDS Integers, Sequences, FiniteSets, TLC

(* ------------------------------------------------------------------ *)
(* Bounds of the model                                                 *)
(* ------------------------------------------------------------------ *)
\* tokens handed to the generator alone range over -NegTok..MaxTok
NegTok == 2
MaxTok == 7
\* step counts handed to the generator alone range over -NegSteps..MaxSteps
NegSteps == 1
MaxSteps == 3
\* next() calls followed on one generator (a generator may be endless)
MaxYield == 9
\* length of the rings handed to get_range_termination alone
MaxRing == 3
\* repair(): rows of the ring listing, owned tokens, --steps, concurrency,
\* and the number of repair processes that exit non-zero in one run
MaxRows == 2
MaxOwned == 2
MaxRepairSteps == 2
MaxConc == 2
NegConc == 1
MaxFail == 2
\* rows of the ring listings handed to get_ring_tokens alone
MaxListing == 3
\* repair(): ring and owned tokens are drawn from {-RingSpan, 0}
RingSpan == 5

None == "None"

VARIABLES
    gen,            \* state of the suspended get_sub_range_generator frame
    gen_args,       \* the arguments that generator was called with
    yielded,        \* pairs the generator has yielded so far, in order
    t_token,        \* argument token of get_range_termination
    t_ring,         \* argument ring of get_range_termination
    t_result,       \* what get_range_termination returned / raised
    l_returncode,   \* exit status of the ring listing handed to get_ring_tokens
    l_rows,         \* rows of that listing after the header
    l_result,       \* what get_ring_tokens returned / raised
    pc,             \* where main() / repair() stands
    keyspace,       \* options.keyspace
    start_steps,    \* options.steps
    repair_concurrency, \* options.repair_concurrency
    ring_returncode,\* exit status of "nodetool ring", -1 before it ran
    ring_success,   \* success flag returned by get_ring_tokens
    ring_tokens,    \* token list returned by get_ring_tokens
    host_returncode,\* exit status of "nodetool info -T", -1 before it ran
    host_marker,    \* whether its output holds "Token"
    host_success,   \* success flag returned by get_host_tokens
    host_token_list,\* token list returned by get_host_tokens
    token_num,      \* number of owned tokens the outer loop has taken
    steps,          \* repair()'s local steps (decremented per sub-range)
    range_termination,
    command_results,\* handles of the current batch, in launch order
    processes,      \* repair()'s local counter of the current batch
    pending,        \* collect_results: retries launched in this pass
    pending2,       \* collect_results: handles of the pass being collected
    ci,             \* collect_results: position in pending2
    collect_from,   \* which call of collect_results is running
    procs,          \* every process launched by repair_range / retry
    repair_status,  \* return value of repair()
    exit_status     \* exit status of the script

genVars == <<gen, gen_args, yielded>>
termVars == <<t_token, t_ring, t_result>>
listVars == <<l_returncode, l_rows, l_result>>
optVars == <<keyspace, start_steps, repair_concurrency>>
discVars == <<ring_returncode, ring_success, ring_tokens,
              host_returncode, host_marker, host_success, host_token_list>>
loopVars == <<token_num, steps, range_termination, command_results, processes>>
collVars == <<pending, pending2, ci, collect_from>>
repairVars == <<pc, optVars, discVars, loopVars, collVars, procs,
                repair_status, exit_status>>
vars == <<genVars, termVars, listVars, repairVars>>

(* ------------------------------------------------------------------ *)
(* Python arithmetic                                                   *)
(* ------------------------------------------------------------------ *)
abs(n) == IF n < 0 THEN -n ELSE n

\* Python 2 "/" on integers: floor division, divisor non-zero
PyFloorDiv(a, b) == IF b > 0 THEN a \div b ELSE (-a) \div (-b)

(* ------------------------------------------------------------------ *)
(* lrange(num1, num2, step): the frame of the generator                *)
(* ------------------------------------------------------------------ *)
lrange(n1, n2, step) ==
    IF n2 < n1
    THEN [num1 |-> IF step > 0 THEN n2 ELSE n1, num2 |-> n2, step |-> step, op |-> "gt"]
    ELSE IF step < 0
    THEN [num1 |-> n2, num2 |-> n2, step |-> step, op |-> "le"]
    ELSE [num1 |-> n1, num2 |-> n2, step |-> step, op |-> "le"]

\* the loop test "while op(num1, num2)"
lrange_test(l) == IF l.op = "le" THEN l.num1 <= l.num2 ELSE l.num1 > l.num2

\* "num1 += step" after the yield
lrange_advance(l) == [l EXCEPT !.num1 = @ + l.step]

(* ------------------------------------------------------------------ *)
(* get_sub_range_generator(start, stop, steps)                         *)
(* pc: "entry" not started, "loop" suspended at line 149, "tail" at    *)
(*     line 152, "single" at line 154, "done" StopIteration,           *)
(*     "raised" ZeroDivisionError                                      *)
(* ------------------------------------------------------------------ *)
NoIter == [num1 |-> 0, num2 |-> 0, step |-> 0, op |-> "le"]

get_sub_range_generator(start, stop, nsteps) ==
    [pc |-> "entry", start |-> start, stop |-> stop, steps |-> nsteps,
     it |-> NoIter, val |-> <<start, stop>>]

\* mutant of needs_split: the distance is taken without its sign
needs_split_abs(start, stop, nsteps) == nsteps + 1 < abs(stop - start)

\* mutant of needs_split: the boundary off by one
needs_split_off_by_one(start, stop, nsteps) == start + nsteps < stop

\* the test of line 146
needs_split(start, stop, nsteps) == start + nsteps + 1 < stop

\* mutant of sub_range_iter: the iterator runs one token further
sub_range_iter_plus_two(start, stop, step_increment) ==
    lrange(start + step_increment, stop + 2, step_increment)

\* the iterator of line 148
sub_range_iter(start, stop, step_increment) ==
    lrange(start + step_increment, stop + 1, step_increment)

\* head of "for i in lrange(...)" followed by the "if start < stop" tail
gen_loop_head(g) ==
    IF lrange_test(g.it)
    THEN [g EXCEPT !.pc = "loop", !.val = <<g.start, g.it.num1>>]
    ELSE IF g.start < g.stop
    THEN [g EXCEPT !.pc = "tail", !.val = <<g.start, g.stop>>]
    ELSE [g EXCEPT !.pc = "done"]

\* one next() call on the generator: run to the next yield / return / raise
gen_next(g) ==
    CASE g.pc = "entry" ->
            IF needs_split(g.start, g.stop, g.steps)
            THEN IF g.steps = 0
                 THEN [g EXCEPT !.pc = "raised"]
                 ELSE LET step_increment == PyFloorDiv(abs(g.stop - g.start), g.steps)
                      IN  gen_loop_head([g EXCEPT !.it =
                              sub_range_iter(g.start, g.stop, step_increment)])
            ELSE [g EXCEPT !.pc = "single", !.val = <<g.start, g.stop>>]
      [] g.pc = "loop" ->
            gen_loop_head([g EXCEPT !.start = g.val[2], !.it = lrange_advance(g.it)])
      [] g.pc \in {"tail", "single"} -> [g EXCEPT !.pc = "done"]
      [] OTHER -> g

gen_suspended(g) == g.pc \in {"loop", "tail", "single"}
gen_finished(g) == g.pc \in {"done", "raised"}

\* list(get_sub_range_generator(...)), cut after `fuel` pairs
RECURSIVE gen_drain(_, _)
gen_drain(g, fuel) ==
    LET n == gen_next(g)
    IN  IF fuel = 0 \/ ~gen_suspended(n) THEN <<>>
        ELSE <<n.val>> \o gen_drain(n, fuel - 1)

(* ------------------------------------------------------------------ *)
(* get_range_termination(token, ring)                                  *)
(* ------------------------------------------------------------------ *)
\* mutant of token_before: a ring value equal to the token is taken
token_before_or_equal(token, i) == token <= i

\* the comparison of line 131
token_before(token, i) == token < i

\* position of the first ring value the loop of line 130 returns, 0 if none
RECURSIVE first_greater(_, _, _)
first_greater(token, ring, i) ==
    IF i > Len(ring) THEN 0
    ELSE IF token_before(token, ring[i]) THEN i
    ELSE first_greater(token, ring, i + 1)

\* raised: IndexError, ring[0] of an empty ring
get_range_termination(token, ring) ==
    LET found == first_greater(token, ring, 1)
    IN  IF found > 0 THEN [raised |-> FALSE, value |-> ring[found]]
        ELSE IF Len(ring) = 0 THEN [raised |-> TRUE, value |-> 0]
        ELSE [raised |-> FALSE, value |-> ring[1]]

(* ------------------------------------------------------------------ *)
(* Formatting and command lines                                        *)
(* ------------------------------------------------------------------ *)
Digit(d) ==
    CASE d = 0 -> "0" [] d = 1 -> "1" [] d = 2 -> "2" [] d = 3 -> "3"
      [] d = 4 -> "4" [] d = 5 -> "5" [] d = 6 -> "6" [] d = 7 -> "7"
      [] d = 8 -> "8" [] OTHER -> "9"

RECURSIVE Digits(_)
Digits(n) == IF n < 10 THEN Digit(n) ELSE Digits(n \div 10) \o Digit(n % 10)

\* k zeros, for the widths 20 and 39 of the two formats
Zeros(k) == IF k <= 0 THEN "" ELSE SubSeq("000000000000000000000000000000000000000", 1, k)

\* "{0:0<width>d}".format(num): sign first, then zero padding, never cut
FormatD(num, width) ==
    LET sign == IF num < 0 THEN "-" ELSE ""
        digits == Digits(abs(num))
    IN  sign \o Zeros(width - Len(sign) - Len(digits)) \o digits

format_murmur(num) == FormatD(num, 20)
format_md5(num) == FormatD(num, 39)

is_murmur_ring(ring) == \E i \in 1..Len(ring) : ring[i] < 0

\* the formatter chosen at line 215, applied to num
formatter(ring, num) ==
    IF is_murmur_ring(ring) THEN format_murmur(num) ELSE format_md5(num)

\* " ".join(parts)
RECURSIVE Join(_)
Join(parts) ==
    IF Len(parts) = 0 THEN ""
    ELSE IF Len(parts) = 1 THEN parts[1]
    ELSE parts[1] \o " " \o Join(Tail(parts))

\* the module global NODETOOL and the options the model keeps fixed
NODETOOL == None
Host == None
Columnfamily == None
AllDcs == FALSE

get_nodetool_cmd == <<IF NODETOOL = None THEN "nodetool" ELSE NODETOOL>>

\* the command line run_command builds from command and args
run_command_cmd(command, args) == Join(<<command>> \o args)

\* the command line of repair_range(keyspace, start, end, ...)
repair_range_cmd(ks, start, end) ==
    run_command_cmd(
        Join(get_nodetool_cmd
             \o (IF Host = None THEN <<>> ELSE <<"-h " \o Host>>)
             \o <<"repair " \o ks>>
             \o (IF Columnfamily = None THEN <<>> ELSE <<Columnfamily>>)
             \o (IF AllDcs THEN <<>> ELSE <<"-local">>)
             \o <<"-pr -st " \o start \o " -et " \o end>>),
        <<>>)

\* mutant of retry_cmd: the command is passed as its own argument too
retry_cmd_doubled(cmd) == run_command_cmd(cmd, <<cmd>>)

\* the command line CommandResult.retry() runs again
retry_cmd(cmd) == run_command_cmd(cmd, <<>>)

\* mutant of result_success: every exit status counts as success
result_success_any(returncode) == returncode = returncode

\* CommandResult.result()[0]
result_success(returncode) == returncode = 0

\* mutant of exit_code: the test of line 322 negated
exit_code_inverted(status) == IF ~status THEN 0 ELSE 2

\* sys.exit() of lines 322-325
exit_code(status) == IF status THEN 0 ELSE 2

(* ------------------------------------------------------------------ *)
(* Discovery: get_ring_tokens and get_host_tokens                      *)
(* ------------------------------------------------------------------ *)
\* sorted(tokens)
RECURSIVE InsertSorted(_, _)
InsertSorted(x, s) ==
    IF Len(s) = 0 THEN <<x>>
    ELSE IF x <= s[1] THEN <<x>> \o s
    ELSE <<s[1]>> \o InsertSorted(x, Tail(s))

RECURSIVE sorted(_)
sorted(s) == IF Len(s) = 0 THEN <<>> ELSE InsertSorted(s[1], sorted(Tail(s)))

\* a row of the ring listing after the six header lines:
\*   nseg    len(line.split())
\*   status  segments[3]
\*   numeric whether long(segments[-1]) parses, last its value
ring_row_taken(row) == row.nseg = 8 /\ row.status # "Joining"

RECURSIVE ring_row_tokens(_)
ring_row_tokens(rows) ==
    IF Len(rows) = 0 THEN <<>>
    ELSE IF ring_row_taken(rows[1])
    THEN <<rows[1].last>> \o ring_row_tokens(Tail(rows))
    ELSE ring_row_tokens(Tail(rows))

\* mutant of ring_listing_failed: the success flag is not looked at
ring_listing_never_failed(returncode) == returncode # returncode

\* the test of line 91
ring_listing_failed(returncode) == ~result_success(returncode)

\* raised: ValueError of long() on a row that is taken
get_ring_tokens(returncode, rows) ==
    IF ring_listing_failed(returncode)
    THEN [success |-> FALSE, tokens |-> <<>>, raised |-> FALSE]
    ELSE IF \E i \in 1..Len(rows) : ring_row_taken(rows[i]) /\ ~rows[i].numeric
    THEN [success |-> FALSE, tokens |-> <<>>, raised |-> TRUE]
    ELSE [success |-> TRUE, tokens |-> sorted(ring_row_tokens(rows)), raised |-> FALSE]

\* a line of "info -T":
\*   kind "token"   starts with Token, long(parts[2]) parses to .token
\*        "bad"     starts with Token, long(parts[2]) raises
\*        "mention" holds Token somewhere after its start
\*        "other"   does not hold Token
RECURSIVE host_line_tokens(_)
host_line_tokens(lines) ==
    IF Len(lines) = 0 THEN <<>>
    ELSE IF lines[1].kind = "token"
    THEN <<lines[1].token>> \o host_line_tokens(Tail(lines))
    ELSE host_line_tokens(Tail(lines))

\* stdout.find("Token") # -1
holds_token_marker(lines) ==
    \E i \in 1..Len(lines) : lines[i].kind \in {"token", "bad", "mention"}

\* the test of line 112
host_listing_failed(returncode, lines) ==
    ~result_success(returncode) \/ ~holds_token_marker(lines)

get_host_tokens(returncode, lines) ==
    IF host_listing_failed(returncode, lines)
    THEN [success |-> FALSE, tokens |-> <<>>, raised |-> FALSE]
    ELSE IF \E i \in 1..Len(lines) : lines[i].kind = "bad"
    THEN [success |-> FALSE, tokens |-> <<>>, raised |-> TRUE]
    ELSE [success |-> TRUE, tokens |-> host_line_tokens(lines), raised |-> FALSE]

(* ------------------------------------------------------------------ *)
(* Values the variables of an unused part keep                         *)
(* ------------------------------------------------------------------ *)
GenIdle ==
    /\ gen = get_sub_range_generator(0, 0, 1)
    /\ gen_args = [start |-> 0, stop |-> 0, steps |-> 1]
    /\ yielded = <<>>

TermIdle ==
    /\ t_token = 0
    /\ t_ring = <<>>
    /\ t_result = <<>>

ListIdle ==
    /\ l_returncode = 0
    /\ l_rows = <<>>
    /\ l_result = <<>>

RepairIdle ==
    /\ pc = "idle"
    /\ keyspace = None
    /\ start_steps = 0
    /\ repair_concurrency = 0
    /\ ring_returncode = -1
    /\ ring_success = "unset"
    /\ ring_tokens = <<>>
    /\ host_returncode = -1
    /\ host_marker = FALSE
    /\ host_success = "unset"
    /\ host_token_list = <<>>
    /\ token_num = 0
    /\ steps = 0
    /\ range_termination = 0
    /\ command_results = <<>>
    /\ processes = 0
    /\ pending = <<>>
    /\ pending2 = <<>>
    /\ ci = 0
    /\ collect_from = "none"
    /\ procs = <<>>
    /\ repair_status = "not_called"
    /\ exit_status = -1

(* ------------------------------------------------------------------ *)
(* Specification of the generator alone                                *)
(* ------------------------------------------------------------------ *)
Tokens == (0 - NegTok)..MaxTok
StepCounts == (0 - NegSteps)..MaxSteps

InitGen ==
    /\ \E start \in Tokens, stop \in Tokens, nsteps \in StepCounts :
           /\ gen = get_sub_range_generator(start, stop, nsteps)
           /\ gen_args = [start |-> start, stop |-> stop, steps |-> nsteps]
    /\ yielded = <<>>
    /\ TermIdle
    /\ ListIdle
    /\ RepairIdle

\* next() returns a pair
GenYield ==
    /\ pc = "idle"
    /\ ~gen_finished(gen)
    /\ Len(yielded) < MaxYield
    /\ gen_suspended(gen_next(gen))
    /\ gen' = gen_next(gen)
    /\ yielded' = Append(yielded, gen_next(gen).val)
    /\ UNCHANGED <<gen_args, termVars, listVars, repairVars>>

\* next() raises StopIteration
GenStop ==
    /\ pc = "idle"
    /\ ~gen_finished(gen)
    /\ gen_next(gen).pc = "done"
    /\ gen' = gen_next(gen)
    /\ UNCHANGED <<gen_args, yielded, termVars, listVars, repairVars>>

\* next() raises ZeroDivisionError
GenRaise ==
    /\ pc = "idle"
    /\ ~gen_finished(gen)
    /\ gen_next(gen).pc = "raised"
    /\ gen' = gen_next(gen)
    /\ UNCHANGED <<gen_args, yielded, termVars, listVars, repairVars>>

NextGen == GenYield \/ GenStop \/ GenRaise

SpecGen == InitGen /\ [][NextGen]_vars

(* ------------------------------------------------------------------ *)
(* Specification of get_range_termination alone                        *)
(* ------------------------------------------------------------------ *)
IsAscending(s) == \A i \in 1..(Len(s) - 1) : s[i] <= s[i + 1]

Rings == {r \in UNION {[1..n -> Tokens] : n \in 0..MaxRing} : IsAscending(r)}

InitTerm ==
    /\ t_token \in Tokens
    /\ t_ring \in Rings
    /\ t_result = <<>>
    /\ GenIdle
    /\ ListIdle
    /\ RepairIdle

\* the call returns a ring value
TermReturn ==
    /\ t_result = <<>>
    /\ ~get_range_termination(t_token, t_ring).raised
    /\ t_result' = <<get_range_termination(t_token, t_ring)>>
    /\ UNCHANGED <<t_token, t_ring, genVars, listVars, repairVars>>

\* the call raises IndexError
TermRaise ==
    /\ t_result = <<>>
    /\ get_range_termination(t_token, t_ring).raised
    /\ t_result' = <<get_range_termination(t_token, t_ring)>>
    /\ UNCHANGED <<t_token, t_ring, genVars, listVars, repairVars>>

NextTerm == TermReturn \/ TermRaise

SpecTerm == InitTerm /\ [][NextTerm]_vars

(* ------------------------------------------------------------------ *)
(* main() and repair()                                                 *)
(* pc: "main" options parsed, "get_ring" line 201, "get_host" line     *)
(*     206, "for_token" head of the loop of line 212, "for_sub" head   *)
(*     of the loop of line 244, "collect" blocked in result() at line  *)
(*     236, "exit" the script has ended                                *)
(* ------------------------------------------------------------------ *)
RepairTokens == {0 - RingSpan, 0}

SeqsUpTo(S, n) == UNION {[1..k -> S] : k \in 0..n}

RingRows ==
    {[nseg |-> 8, status |-> "Normal", last |-> t, numeric |-> TRUE] : t \in RepairTokens}
    \cup {[nseg |-> 8, status |-> "Joining", last |-> 0, numeric |-> TRUE],
          [nseg |-> 7, status |-> "Normal", last |-> 0, numeric |-> TRUE],
          [nseg |-> 8, status |-> "Normal", last |-> 0, numeric |-> FALSE]}

HostLines ==
    {[kind |-> "token", token |-> t] : t \in RepairTokens}
    \cup {[kind |-> k, token |-> 0] : k \in {"bad", "mention", "other"}}

Init ==
    /\ pc = "main"
    /\ keyspace \in {None, "ks"}
    /\ start_steps \in 0..MaxRepairSteps
    /\ repair_concurrency \in {0 - NegConc} \cup 0..MaxConc
    /\ ring_returncode = -1
    /\ ring_success = "unset"
    /\ ring_tokens = <<>>
    /\ host_returncode = -1
    /\ host_marker = FALSE
    /\ host_success = "unset"
    /\ host_token_list = <<>>
    /\ token_num = 0
    /\ steps = 0
    /\ range_termination = 0
    /\ command_results = <<>>
    /\ processes = 0
    /\ pending = <<>>
    /\ pending2 = <<>>
    /\ ci = 0
    /\ collect_from = "none"
    /\ procs = <<>>
    /\ repair_status = "not_called"
    /\ exit_status = -1
    /\ GenIdle
    /\ TermIdle
    /\ ListIdle

\* the script ends: repair() returned status, or something was raised
Exit(status, code) ==
    /\ pc' = "exit"
    /\ repair_status' = status
    /\ exit_status' = code

\* repair() returns a boolean and main() exits on it (lines 322-325)
Return(status) == Exit(IF status THEN "True" ELSE "False", exit_code(status))

\* an exception leaves repair() and main(): traceback, exit status 1
Raise == Exit("raised", 1)

\* main() up to the call of repair(): a missing keyspace exits with 1
MainNoKeyspace ==
    /\ pc = "main"
    /\ keyspace = None
    /\ pc' = "exit"
    /\ exit_status' = 1
    /\ UNCHANGED <<optVars, discVars, loopVars, collVars, procs, repair_status,
                   genVars, termVars, listVars>>

MainCallsRepair ==
    /\ pc = "main"
    /\ keyspace # None
    /\ pc' = "get_ring"
    /\ repair_status' = "running"
    /\ UNCHANGED <<optVars, discVars, loopVars, collVars, procs, exit_status,
                   genVars, termVars, listVars>>

\* lines 201-204: the ring listing ran and was read
RingListed(returncode, r) ==
    /\ ring_returncode' = returncode
    /\ ring_success' = IF r.raised THEN "raised"
                       ELSE IF r.success THEN "True" ELSE "False"
    /\ ring_tokens' = r.tokens
    /\ UNCHANGED <<optVars, host_returncode, host_marker, host_success,
                   host_token_list, loopVars, collVars, procs, genVars, termVars, listVars>>

GetRingTokensOk ==
    /\ pc = "get_ring"
    /\ \E returncode \in {0, 1}, rows \in SeqsUpTo(RingRows, MaxRows) :
           LET r == get_ring_tokens(returncode, rows)
           IN  /\ r.success
               /\ RingListed(returncode, r)
    /\ pc' = "get_host"
    /\ UNCHANGED <<repair_status, exit_status>>

GetRingTokensFails ==
    /\ pc = "get_ring"
    /\ \E returncode \in {0, 1}, rows \in SeqsUpTo(RingRows, MaxRows) :
           LET r == get_ring_tokens(returncode, rows)
           IN  /\ ~r.success /\ ~r.raised
               /\ RingListed(returncode, r)
    /\ Return(FALSE)

GetRingTokensRaises ==
    /\ pc = "get_ring"
    /\ \E returncode \in {0, 1}, rows \in SeqsUpTo(RingRows, MaxRows) :
           LET r == get_ring_tokens(returncode, rows)
           IN  /\ r.raised
               /\ RingListed(returncode, r)
    /\ Raise

\* lines 206-209: the owned-token listing ran and was read
HostListed(returncode, lines, r) ==
    /\ host_returncode' = returncode
    /\ host_marker' = holds_token_marker(lines)
    /\ host_success' = IF r.raised THEN "raised"
                       ELSE IF r.success THEN "True" ELSE "False"
    /\ host_token_list' = r.tokens
    /\ UNCHANGED <<optVars, ring_returncode, ring_success, ring_tokens, loopVars,
                   collVars, procs, genVars, termVars, listVars>>

GetHostTokensOk ==
    /\ pc = "get_host"
    /\ \E returncode \in {0, 1}, lines \in SeqsUpTo(HostLines, MaxOwned) :
           LET r == get_host_tokens(returncode, lines)
           IN  /\ r.success
               /\ HostListed(returncode, lines, r)
    /\ pc' = "for_token"
    /\ UNCHANGED <<repair_status, exit_status>>

GetHostTokensFails ==
    /\ pc = "get_host"
    /\ \E returncode \in {0, 1}, lines \in SeqsUpTo(HostLines, MaxOwned) :
           LET r == get_host_tokens(returncode, lines)
           IN  /\ ~r.success /\ ~r.raised
               /\ HostListed(returncode, lines, r)
    /\ Return(FALSE)

GetHostTokensRaises ==
    /\ pc = "get_host"
    /\ \E returncode \in {0, 1}, lines \in SeqsUpTo(HostLines, MaxOwned) :
           LET r == get_host_tokens(returncode, lines)
           IN  /\ r.raised
               /\ HostListed(returncode, lines, r)
    /\ Raise

(* ------------------------------------------------------------------ *)
(* The loops of repair(): lines 212-272                                *)
(* ------------------------------------------------------------------ *)
\* a process started by run_command; tok, sub, range and attempt record
\* which owned token and sub-range it repairs and which attempt it is
NewProc(cmd, tok, sub, range, attempt) ==
    [cmd |-> cmd, state |-> "running", returncode |-> -1, collected |-> FALSE,
     tok |-> tok, sub |-> sub, range |-> range, attempt |-> attempt]

\* the process repair_range starts for the pair the generator yielded
repair_range(ks, ring, tok, sub, range) ==
    CHOOSE proc \in {NewProc(repair_range_cmd(ks, start, end), tok, sub, range, 1) :
                         start \in {formatter(ring, range[1])},
                         end \in {formatter(ring, range[2])}} : TRUE

\* mutant of retry: the failed command is not run again
retry_dropped(proc) == SubSeq(<<proc>>, 1, 0)

\* the processes CommandResult.retry() starts for a failed one
retry(proc) ==
    <<NewProc(retry_cmd(proc.cmd), proc.tok, proc.sub, proc.range, proc.attempt + 1)>>

\* mutant of batch_full: a batch with at least `concurrency` members is full
batch_full_at_least(nprocesses, concurrency) == nprocesses >= concurrency

\* mutant of batch_full: the test never fires
batch_full_never(nprocesses, concurrency) == nprocesses < 0

\* mutant of batch_full: the batch is collected one launch too late
batch_full_one_late(nprocesses, concurrency) == nprocesses = concurrency + 1

\* the test of line 265
batch_full(nprocesses, concurrency) == nprocesses = concurrency

\* mutant of collect_pending: the copy is in reverse order
collect_pending_reversed(results) ==
    [i \in 1..Len(results) |-> results[Len(results) + 1 - i]]

\* mutant of collect_pending: the copy starts at the second handle
collect_pending_skips_first(results) == SubSeq(results, 2, Len(results))

\* "pending = command_results[:]" of line 230
collect_pending(results) == results

Uncollected == {p \in DOMAIN procs : ~procs[p].collected}
Failed == {p \in DOMAIN procs : procs[p].state = "exited" /\ procs[p].returncode # 0}

\* collect_results() is entered with the handles `results`
StartCollect(from, results) ==
    /\ pending' = <<>>
    /\ pending2' = collect_pending(results)
    /\ ci' = 1
    /\ collect_from' = from
    /\ pc' = "collect"

\* line 212 finds no further owned token: repair() returns True
RepairReturnsTrue ==
    /\ pc = "for_token"
    /\ token_num = Len(host_token_list)
    /\ Return(TRUE)
    /\ UNCHANGED <<optVars, discVars, loopVars, collVars, procs, genVars, termVars, listVars>>

\* lines 212-244: the next owned token, its termination and its generator
NextOwnedToken ==
    /\ pc = "for_token"
    /\ token_num < Len(host_token_list)
    /\ LET host_token == host_token_list[token_num + 1]
           t == get_range_termination(host_token, ring_tokens)
       IN  /\ ~t.raised
           /\ range_termination' = t.value
           /\ gen' = get_sub_range_generator(host_token, t.value, start_steps)
           /\ gen_args' = [start |-> host_token, stop |-> t.value, steps |-> start_steps]
    /\ token_num' = token_num + 1
    /\ steps' = start_steps
    /\ command_results' = <<>>
    /\ processes' = 0
    /\ yielded' = <<>>
    /\ pc' = "for_sub"
    /\ UNCHANGED <<optVars, discVars, collVars, procs, repair_status, exit_status,
                   termVars, listVars>>

\* line 214 raises IndexError on an empty ring
TerminationRaises ==
    /\ pc = "for_token"
    /\ token_num < Len(host_token_list)
    /\ get_range_termination(host_token_list[token_num + 1], ring_tokens).raised
    /\ Raise
    /\ UNCHANGED <<optVars, discVars, loopVars, collVars, procs, genVars, termVars, listVars>>

\* lines 244-270: the generator yields a pair, its repair is launched, and
\* a full batch enters collect_results()
LaunchSubRange ==
    /\ pc = "for_sub"
    /\ Len(yielded) < MaxYield
    /\ gen_suspended(gen_next(gen))
    /\ LET n == gen_next(gen)
           id == Len(procs) + 1
           results == Append(command_results, id)
       IN  /\ gen' = n
           /\ yielded' = Append(yielded, n.val)
           /\ procs' = Append(procs, repair_range(keyspace, ring_tokens, token_num,
                                                  Len(yielded) + 1, n.val))
           /\ command_results' = results
           /\ processes' = processes + 1
           /\ IF batch_full(processes + 1, repair_concurrency)
              THEN IF Len(collect_pending(results)) > 0
                   THEN /\ StartCollect("batch", results)
                        /\ steps' = steps
                   ELSE /\ steps' = steps
                        /\ collect_from' = "batch"
                        /\ pc' = "collected"
                        /\ UNCHANGED <<pending, pending2, ci>>
              ELSE /\ steps' = steps - 1
                   /\ UNCHANGED <<pc, collVars>>
    /\ UNCHANGED <<gen_args, optVars, discVars, token_num, range_termination,
                   repair_status, exit_status, termVars, listVars>>

\* line 244 ends the loop, line 272 collects what is left of the last batch
SubRangesExhausted ==
    /\ pc = "for_sub"
    /\ gen_next(gen).pc = "done"
    /\ gen' = gen_next(gen)
    /\ IF Len(collect_pending(command_results)) > 0
       THEN StartCollect("final", command_results)
       ELSE /\ pc' = "for_token"
            /\ UNCHANGED collVars
    /\ UNCHANGED <<gen_args, yielded, optVars, discVars, loopVars, procs,
                   repair_status, exit_status, termVars, listVars>>

\* line 147 raises ZeroDivisionError
GeneratorRaises ==
    /\ pc = "for_sub"
    /\ gen_next(gen).pc = "raised"
    /\ gen' = gen_next(gen)
    /\ Raise
    /\ UNCHANGED <<gen_args, yielded, optVars, discVars, loopVars, collVars, procs,
                   termVars, listVars>>

\* a running repair process exits, with status zero or not
ProcExit ==
    /\ pc \in {"for_sub", "collect"}
    /\ \E p \in DOMAIN procs, returncode \in {0, 1} :
           /\ procs[p].state = "running"
           /\ returncode # 0 => Cardinality(Failed) < MaxFail
           /\ procs' = [procs EXCEPT ![p].state = "exited", ![p].returncode = returncode]
    /\ UNCHANGED <<pc, optVars, discVars, loopVars, collVars, repair_status,
                   exit_status, genVars, termVars, listVars>>

\* lines 236-241: result() of the process at position ci returns, a failed
\* one is retried; then the for loop and the while loop go on or end
CollectResult(success) ==
    /\ LET p == pending2[ci]
           retried == IF success THEN <<>> ELSE retry(procs[p])
           launched == [procs EXCEPT ![p].collected = TRUE] \o retried
           again == pending \o [k \in 1..Len(retried) |-> Len(procs) + k]
       IN  /\ procs[p].state = "exited"
           /\ result_success(procs[p].returncode) = success
           /\ procs' = launched
           /\ IF ci < Len(pending2)
              THEN /\ ci' = ci + 1
                   /\ pending' = again
                   /\ UNCHANGED <<pc, pending2, collect_from, loopVars>>
              ELSE IF Len(again) > 0
              THEN /\ pending2' = again
                   /\ pending' = <<>>
                   /\ ci' = 1
                   /\ UNCHANGED <<pc, collect_from, loopVars>>
              ELSE /\ pending' = <<>>
                   /\ pending2' = <<>>
                   /\ ci' = 0
                   /\ pc' = "collected"
                   /\ UNCHANGED <<collect_from, loopVars>>
    /\ UNCHANGED <<optVars, discVars, repair_status, exit_status, genVars, termVars, listVars>>

\* result() reports success: nothing is launched
CollectSucceeded ==
    /\ pc = "collect"
    /\ CollectResult(TRUE)

\* result() reports failure: retry() launches the command again
CollectFailedRetry ==
    /\ pc = "collect"
    /\ CollectResult(FALSE)

\* collect_results() has returned: lines 267-270 after a full batch, the
\* next owned token after the call of line 272
AfterCollect ==
    /\ pc = "collected"
    /\ IF collect_from = "batch"
       THEN /\ command_results' = <<>>
            /\ processes' = 0
            /\ steps' = steps - 1
            /\ pc' = "for_sub"
       ELSE /\ pc' = "for_token"
            /\ UNCHANGED <<command_results, processes, steps>>
    /\ collect_from' = "none"
    /\ UNCHANGED <<pending, pending2, ci, token_num, range_termination, optVars,
                   discVars, procs, repair_status, exit_status, genVars, termVars, listVars>>

Next ==
    \/ MainNoKeyspace
    \/ MainCallsRepair
    \/ GetRingTokensOk
    \/ GetRingTokensFails
    \/ GetRingTokensRaises
    \/ GetHostTokensOk
    \/ GetHostTokensFails
    \/ GetHostTokensRaises
    \/ RepairReturnsTrue
    \/ NextOwnedToken
    \/ TerminationRaises
    \/ LaunchSubRange
    \/ SubRangesExhausted
    \/ GeneratorRaises
    \/ ProcExit
    \/ CollectSucceeded
    \/ CollectFailedRetry
    \/ AfterCollect

Spec == Init /\ [][Next]_vars

\* the steps of the script itself, and those of the repair processes
Controller ==
    \/ MainNoKeyspace
    \/ MainCallsRepair
    \/ GetRingTokensOk
    \/ GetRingTokensFails
    \/ GetRingTokensRaises
    \/ GetHostTokensOk
    \/ GetHostTokensFails
    \/ GetHostTokensRaises
    \/ RepairReturnsTrue
    \/ NextOwnedToken
    \/ TerminationRaises
    \/ LaunchSubRange
    \/ SubRangesExhausted
    \/ GeneratorRaises
    \/ CollectSucceeded
    \/ CollectFailedRetry
    \/ AfterCollect

\* the script keeps running while it can take a step, and every launched
\* repair process exits at some time
SpecLive == Init /\ [][Next]_vars /\ WF_vars(Controller) /\ WF_vars(ProcExit)

(* ------------------------------------------------------------------ *)
(* Specification of get_ring_tokens alone                              *)
(* ------------------------------------------------------------------ *)
ListingRows ==
    [nseg : {7, 8}, status : {"Normal", "Joining"}, last : RepairTokens,
     numeric : {TRUE}]
    \cup {[nseg |-> 8, status |-> "Normal", last |-> 0, numeric |-> FALSE]}

InitList ==
    /\ l_returncode \in {0, 1}
    /\ l_rows \in SeqsUpTo(ListingRows, MaxListing)
    /\ l_result = <<>>
    /\ GenIdle
    /\ TermIdle
    /\ RepairIdle

\* the call returns True and the sorted tokens
ListParsed ==
    /\ l_result = <<>>
    /\ get_ring_tokens(l_returncode, l_rows).success
    /\ l_result' = <<get_ring_tokens(l_returncode, l_rows)>>
    /\ UNCHANGED <<l_returncode, l_rows, genVars, termVars, repairVars>>

\* the call returns False: the listing exited non-zero
ListFailed ==
    /\ l_result = <<>>
    /\ ~get_ring_tokens(l_returncode, l_rows).success
    /\ ~get_ring_tokens(l_returncode, l_rows).raised
    /\ l_result' = <<get_ring_tokens(l_returncode, l_rows)>>
    /\ UNCHANGED <<l_returncode, l_rows, genVars, termVars, repairVars>>

\* long() raises ValueError on a row that is taken
ListRaises ==
    /\ l_result = <<>>
    /\ get_ring_tokens(l_returncode, l_rows).raised
    /\ l_result' = <<get_ring_tokens(l_returncode, l_rows)>>
    /\ UNCHANGED <<l_returncode, l_rows, genVars, termVars, repairVars>>

NextList == ListParsed \/ ListFailed \/ ListRaises

SpecList == InitList /\ [][NextList]_vars

(* ------------------------------------------------------------------ *)
(* Claims about get_sub_range_generator (checked under SpecGen)        *)
(* ------------------------------------------------------------------ *)
GenReturned == pc = "idle" /\ gen.pc = "done"

Chained(pairs) == \A i \in 1..(Len(pairs) - 1) : pairs[i + 1][1] = pairs[i][2]

\* C1: for start < end and steps >= 1 the pairs yielded reconstruct exactly
\* [start, end]: the first pair starts at start, every later pair starts
\* where the previous one ended, and the last pair ends at end.
C1_ExactCover ==
    (GenReturned /\ gen_args.start < gen_args.stop /\ gen_args.steps >= 1)
        => /\ Len(yielded) >= 1
           /\ yielded[1][1] = gen_args.start
           /\ Chained(yielded)
           /\ yielded[Len(yielded)][2] = gen_args.stop

\* C2: for steps >= 1 the generator yields at most steps + 1 pairs in total.
C2_AtMostStepsPlusOne ==
    (pc = "idle" /\ gen_args.steps >= 1) => Len(yielded) <= gen_args.steps + 1

\* C3: for steps >= 1 and end - start <= steps + 1 (start = end included)
\* exactly one pair is yielded and it is (start, end).
C3_Degenerate ==
    (pc = "idle" /\ gen_args.steps >= 1
        /\ gen_args.stop - gen_args.start <= gen_args.steps + 1)
        => /\ gen.pc # "raised"
           /\ yielded \in {<<>>, <<(<<gen_args.start, gen_args.stop>>)>>}
           /\ gen.pc = "entry" <=> yielded = <<>>

\* C3 witness: the generator returned on the boundary end - start = steps + 1
\* (with more than one step asked for) after yielding the one pair.
C3_Witness ==
    /\ GenReturned
    /\ gen_args.steps >= 2
    /\ gen_args.stop - gen_args.start = gen_args.steps + 1
    /\ yielded = <<(<<gen_args.start, gen_args.stop>>)>>

(* ------------------------------------------------------------------ *)
(* Claims about get_range_termination (checked under SpecTerm)         *)
(* ------------------------------------------------------------------ *)
RingValues(ring) == {ring[i] : i \in 1..Len(ring)}
SetMin(S) == CHOOSE m \in S : \A x \in S : m <= x

\* C4: for a non-empty ascending ring and any token t the call returns the
\* smallest ring value strictly greater than t, and ring[0], the ring
\* minimum, when no ring value is greater than t.
C4_Termination ==
    (t_result # <<>> /\ Len(t_ring) > 0)
        => LET greater == {v \in RingValues(t_ring) : v > t_token}
           IN  /\ ~t_result[1].raised
               /\ greater # {} => t_result[1].value = SetMin(greater)
               /\ greater = {} => /\ t_result[1].value = t_ring[1]
                                  /\ t_result[1].value = SetMin(RingValues(t_ring))

\* C4 witness: the token is the maximum of a ring of three distinct values
\* and the call wrapped around to the ring minimum.
C4_Witness ==
    /\ t_result # <<>>
    /\ Len(t_ring) = 3
    /\ t_ring[1] < t_ring[2] /\ t_ring[2] < t_ring[3]
    /\ t_token = t_ring[3]
    /\ t_result[1] = [raised |-> FALSE, value |-> t_ring[1]]

(* ------------------------------------------------------------------ *)
(* Claims about repair() and main() (checked under Spec)               *)
(* ------------------------------------------------------------------ *)
Elements(seq) == {seq[i] : i \in 1..Len(seq)}

\* the pairs the generator yields for the k-th owned token
SubRangesOf(k) ==
    LET t == get_range_termination(host_token_list[k], ring_tokens)
    IN  Elements(gen_drain(
            get_sub_range_generator(host_token_list[k], t.value, start_steps),
            MaxYield))

\* the attempts launched for the pair `range` of the k-th owned token
AttemptsOf(k, range) ==
    {p \in DOMAIN procs : procs[p].tok = k /\ procs[p].range = range}

CollectedOk(p) ==
    procs[p].collected /\ procs[p].state = "exited" /\ procs[p].returncode = 0

CollectedFailed(p) ==
    procs[p].collected /\ procs[p].state = "exited" /\ procs[p].returncode # 0

DiscoverySucceeded == ring_success = "True" /\ host_success = "True"

\* C5: with repair_concurrency >= 1 the number of repair operations launched
\* and not yet collected never exceeds repair_concurrency, retries launched
\* inside collect_results included.
C5_InFlightBound ==
    repair_concurrency >= 1 => Cardinality(Uncollected) <= repair_concurrency

\* C5 witness: concurrency 2, and the two operations in flight are a retry
\* launched inside collect_results and a first attempt not yet collected.
C5_Witness ==
    /\ repair_concurrency = 2
    /\ pc = "collect"
    /\ Cardinality(Uncollected) = 2
    /\ \E p \in Uncollected : procs[p].attempt > 1
    /\ \E p \in Uncollected : procs[p].attempt = 1

\* C6: repair returns True (and main exits with 0) only when both listings
\* succeeded and every sub-range the generator yields, for every owned
\* token, has a launched attempt that exited with status zero.
C6_TrueOnlyIfAllRepaired ==
    (repair_status = "True" \/ exit_status = 0)
        => /\ repair_status = "True" /\ exit_status = 0
           /\ ring_returncode = 0 /\ host_returncode = 0 /\ host_marker
           /\ \A k \in 1..Len(host_token_list) :
                  /\ ~get_range_termination(host_token_list[k], ring_tokens).raised
                  /\ \A range \in SubRangesOf(k) :
                         \E p \in AttemptsOf(k, range) :
                             /\ procs[p].state = "exited"
                             /\ procs[p].returncode = 0
                             /\ procs[p].cmd = repair_range_cmd(keyspace,
                                    formatter(ring_tokens, range[1]),
                                    formatter(ring_tokens, range[2]))

\* C6 witness: repair returned True for two owned tokens, one of them split
\* into three sub-ranges, after some attempt had failed.
C6_Witness ==
    /\ repair_status = "True"
    /\ Len(host_token_list) = 2
    /\ \E k \in 1..2 : Cardinality(SubRangesOf(k)) = 3
    /\ Failed # {}

\* C7: when the ring listing or the owned-token listing fails, repair returns
\* False without having launched any repair operation and main exits with
\* status 2; status 2 arises in no other case.
C7_DiscoveryFailure ==
    LET ring_failed == ring_returncode > 0
        host_failed == host_returncode > 0 \/ (host_returncode = 0 /\ ~host_marker)
    IN  /\ (ring_failed \/ host_failed)
            => /\ repair_status = "False"
               /\ exit_status = 2
               /\ procs = <<>>
        /\ ring_failed => host_returncode = -1
        /\ exit_status = 2 => (ring_failed \/ host_failed)

\* C7 witness: the ring listing succeeded, the owned-token listing exited
\* with zero but without the marker, and the script ended with status 2.
C7_Witness ==
    /\ ring_returncode = 0
    /\ host_returncode = 0
    /\ ~host_marker
    /\ repair_status = "False"
    /\ exit_status = 2

\* C8: no repair operation of a later owned token is launched until every
\* sub-range of each earlier owned token has a collected successful attempt
\* and no operation of an earlier owned token is still uncollected.
C8_OneRangeAtATime ==
    \A k \in 1..Len(host_token_list) :
        (\E p \in DOMAIN procs : procs[p].tok > k)
            => /\ \A q \in DOMAIN procs : procs[q].tok = k => procs[q].collected
               /\ \A range \in SubRangesOf(k) :
                      \E q \in AttemptsOf(k, range) : CollectedOk(q)

\* C8 witness: an operation of the second owned token is running after the
\* first owned token took three sub-ranges and a retry.
C8_Witness ==
    /\ \E p \in DOMAIN procs : procs[p].tok = 2 /\ procs[p].state = "running"
    /\ Cardinality(SubRangesOf(1)) = 3
    /\ \E q \in DOMAIN procs : procs[q].tok = 1 /\ procs[q].attempt = 2

\* C9: every collected failed attempt causes exactly one relaunch with the
\* identical command string and a collected successful attempt causes none,
\* so a sub-range that fails f times and then succeeds is launched exactly
\* f + 1 times, and repair then returns True.
C9_RetryPerFailure ==
    \A p \in DOMAIN procs :
        LET attempts == {q \in DOMAIN procs :
                            procs[q].tok = procs[p].tok /\ procs[q].sub = procs[p].sub}
            failed == {q \in attempts : CollectedFailed(q)}
            ok == {q \in attempts : CollectedOk(q)}
        IN  /\ \A q \in attempts : procs[q].cmd = procs[p].cmd
            /\ Cardinality(attempts) = Cardinality(failed) + 1
            /\ {procs[q].attempt : q \in attempts} = 1..Cardinality(attempts)
            /\ repair_status = "True"
                   => /\ Cardinality(ok) = 1
                      /\ \A q \in ok : procs[q].attempt = Cardinality(failed) + 1

\* C9 witness: repair returned True and some sub-range failed twice and
\* succeeded on its third attempt.
C9_Witness ==
    /\ repair_status = "True"
    /\ \E p \in DOMAIN procs :
           /\ procs[p].attempt = 3
           /\ CollectedOk(p)
           /\ Cardinality({q \in DOMAIN procs :
                  procs[q].tok = procs[p].tok /\ procs[q].sub = procs[p].sub
                  /\ CollectedFailed(q)}) = 2

\* C10: once both listings have succeeded repair never returns False and
\* main never exits with status 2, whatever the repair operations exit with.
C10_NoTerminalFailure ==
    DiscoverySucceeded => (repair_status # "False" /\ exit_status # 2)

\* C10 witness: the script has ended after both listings succeeded and
\* as many repair operations exited non-zero as the model follows.
C10_Witness ==
    /\ DiscoverySucceeded
    /\ pc = "exit"
    /\ Cardinality(Failed) = MaxFail
    /\ exit_status = 0

(* ------------------------------------------------------------------ *)
(* Claims about get_ring_tokens (checked under SpecList)               *)
(* ------------------------------------------------------------------ *)
ListReturnedTokens == l_result # <<>> /\ l_result[1].success

\* C11: for every ring listing get_ring_tokens parses successfully the
\* returned tokens are ascending, hold no value twice, and hold no token
\* taken from a row flagged as Joining.
C11_RingTokens ==
    ListReturnedTokens
        => LET tokens == l_result[1].tokens
           IN  /\ \A i \in 1..(Len(tokens) - 1) : tokens[i] <= tokens[i + 1]
               /\ \A i, j \in 1..Len(tokens) : i # j => tokens[i] # tokens[j]
               /\ \A i \in 1..Len(tokens) :
                      \E r \in 1..Len(l_rows) :
                          /\ l_rows[r].status # "Joining"
                          /\ l_rows[r].last = tokens[i]
               /\ Len(tokens) <= Cardinality({r \in 1..Len(l_rows) :
                                                 l_rows[r].status # "Joining"})

(* ------------------------------------------------------------------ *)
(* Further claims about get_sub_range_generator (under SpecGen)        *)
(* ------------------------------------------------------------------ *)
\* C12: with steps <= 0 the generator fails with an invalid-step-count error
\* for every start and end: it yields no pair, neither one normal pair nor
\* an endless sequence.
C12_InvalidSteps ==
    (pc = "idle" /\ gen_args.steps <= 0)
        => /\ yielded = <<>>
           /\ gen.pc \in {"entry", "raised"}

(* ------------------------------------------------------------------ *)
(* Claims about the batches of repair() (checked under Spec)           *)
(* ------------------------------------------------------------------ *)
\* the batch the s-th sub-range of an owned token is launched in
BatchOf(s) == IF repair_concurrency >= 1 THEN (s - 1) \div repair_concurrency ELSE 0

SameRange(p, q) == procs[p].tok = procs[q].tok /\ procs[p].sub = procs[q].sub

C14_NextBatchAfterDrain ==
    repair_concurrency >= 1
        => /\ \A q \in DOMAIN procs :
                  \A s \in 1..(procs[q].sub - 1) :
                      BatchOf(s) < BatchOf(procs[q].sub)
                          => \E p \in DOMAIN procs :
                                 /\ procs[p].tok = procs[q].tok
                                 /\ procs[p].sub = s
                                 /\ CollectedOk(p)
           /\ pc = "collect"
                  => /\ \A i \in 1..Len(pending) :
                            /\ procs[pending[i]].attempt > 1
                            /\ \E j \in 1..Len(pending2) :
                                   /\ j < ci
                                   /\ SameRange(pending2[j], pending[i])
                                   /\ CollectedFailed(pending2[j])
                                   /\ procs[pending2[j]].attempt + 1
                                          = procs[pending[i]].attempt
                     /\ \/ pending2 = command_results
                        \/ \A j \in 1..Len(pending2) : procs[pending2[j]].attempt > 1

\* C14 witness: concurrency 2, the third sub-range of an owned token is
\* launched, and the first batch needed a retry cycle before it.
C14_Witness ==
    /\ repair_concurrency = 2
    /\ \E q \in DOMAIN procs : procs[q].sub = 3 /\ procs[q].attempt = 1
    /\ \E p \in DOMAIN procs : procs[p].sub \in {1, 2} /\ procs[p].attempt = 2
                                /\ CollectedOk(p)

(* ------------------------------------------------------------------ *)
(* Claims about termination of repair() (checked under SpecLive)       *)
(* ------------------------------------------------------------------ *)
\* while a launched sub-range has no attempt that exited with zero, the
\* script has not ended and nothing of a later batch or of a later owned
\* token has been launched
NoProgressPastFailing ==
    \A p \in DOMAIN procs :
        (\A q \in DOMAIN procs :
             SameRange(p, q) => ~(procs[q].state = "exited" /\ procs[q].returncode = 0))
            => /\ pc # "exit"
               /\ repair_status = "running"
               /\ \A r \in DOMAIN procs :
                      /\ procs[r].tok <= procs[p].tok
                      /\ procs[r].tok = procs[p].tok
                             => BatchOf(procs[r].sub) <= BatchOf(procs[p].sub)

\* C15: if discovery succeeds, steps >= 1, every launched operation
\* terminates and every sub-range fails only finitely often, repair
\* eventually returns True; and while a sub-range's operation has failed on
\* every attempt repair does not return and launches no later batch and no
\* later owned range.
C15_EventuallyTrue ==
    /\ (DiscoverySucceeded /\ start_steps >= 1) ~> (repair_status = "True")
    /\ []NoProgressPastFailing

\* C15 as amended: the same, provided get_range_termination has a ring value
\* to return (the ring is not empty, or the host owns no token).
C15_EventuallyTrueAmended ==
    /\ (DiscoverySucceeded /\ start_steps >= 1
            /\ (Len(ring_tokens) > 0 \/ Len(host_token_list) = 0))
           ~> (repair_status = "True")
    /\ []NoProgressPastFailing

\* C15 witness: repair returned True for two owned tokens with steps >= 1
\* after as many failed operations as the model follows, one of which
\* failed twice.
C15_Witness ==
    /\ repair_status = "True"
    /\ start_steps >= 1
    /\ Len(host_token_list) = 2
    /\ Cardinality(Failed) = MaxFail
    /\ \E p \in DOMAIN procs : procs[p].attempt = 3

(* ------------------------------------------------------------------ *)
(* Claims about the order of launches and collections (under Spec)     *)
(* ------------------------------------------------------------------ *)
\* the first attempts of owned token number k launched so far
FirstAttemptsOf(k) == {p \in DOMAIN procs : procs[p].tok = k /\ procs[p].attempt = 1}

\* C16: within one owned range the first attempts are launched in the order
\* the generator yields the sub-ranges (the n-th first attempt repairs the
\* n-th pair of the generator for that range), and results are collected in
\* launch order: an operation is collected only when every operation
\* launched before it has been collected.
C16_LaunchAndCollectOrder ==
    [][/\ \A n \in (Len(procs) + 1)..Len(procs') :
              procs'[n].attempt = 1 =>
                  LET nth == Cardinality(FirstAttemptsOf(procs'[n].tok)) + 1
                      pairs == gen_drain(get_sub_range_generator(gen_args.start,
                                   gen_args.stop, gen_args.steps), nth)
                  IN  /\ procs'[n].tok = token_num
                      /\ procs'[n].sub = nth
                      /\ Len(pairs) = nth
                      /\ procs'[n].range = pairs[nth]
       /\ \A p \in DOMAIN procs :
              (~procs[p].collected /\ procs'[p].collected)
                  => \A q \in 1..(p - 1) : procs[q].collected]_vars

\* C16 witness: collect_results waits for the first of the two operations of
\* a batch while the second, launched later for the next pair of the
\* generator, has already exited.
C16_Witness ==
    /\ pc = "collect"
    /\ Len(pending2) = 2
    /\ ci = 1
    /\ procs[pending2[1]].state = "running"
    /\ procs[pending2[2]].state = "exited"
    /\ procs[pending2[1]].sub + 1 = procs[pending2[2]].sub
    /\ procs[pending2[1]].range[2] = procs[pending2[2]].range[1]

(* ------------------------------------------------------------------ *)
(* Further claims about get_sub_range_generator (checked under SpecGen) *)
(* ------------------------------------------------------------------ *)
\* C17: whenever start > end and steps >= 1 the generator yields exactly
\* the one pair (start, end), however far apart the two are: it never
\* splits, never raises, and returns after that pair.
C17_WraparoundNotSplit ==
    (pc = "idle" /\ gen_args.steps >= 1 /\ gen_args.start > gen_args.stop)
        => /\ gen.pc \in {"entry", "single", "done"}
           /\ gen.pc = "entry" => yielded = <<>>
           /\ gen.pc # "entry" => yielded = <<(<<gen_args.start, gen_args.stop>>)>>

\* C17 witness: the generator returned after the single pair for the
\* largest distance the model has, with start > end and one step.
C17_Witness ==
    /\ GenReturned
    /\ gen_args.steps = 1
    /\ gen_args.start = MaxTok
    /\ gen_args.stop = 0 - NegTok
    /\ yielded = <<(<<gen_args.start, gen_args.stop>>)>>

\* C18: for start < end and steps >= 1 the generator yields finitely many
\* pairs (at most 2 * steps, without raising), every pair has
\* subStart < subEnd, the first starts at start, each later pair starts at
\* the end of the previous one, and when the generator returns the last
\* pair ends at end or at end + 1.
C18_BoundedOvershoot ==
    (pc = "idle" /\ gen_args.steps >= 1 /\ gen_args.start < gen_args.stop)
        => /\ gen.pc # "raised"
           /\ Len(yielded) <= 2 * gen_args.steps
           /\ \A i \in 1..Len(yielded) : yielded[i][1] < yielded[i][2]
           /\ Len(yielded) >= 1 => yielded[1][1] = gen_args.start
           /\ Chained(yielded)
           /\ gen.pc # "entry" => Len(yielded) >= 1
           /\ GenReturned =>
                  yielded[Len(yielded)][2] \in {gen_args.stop, gen_args.stop + 1}

\* C18 witness: the generator returned after 2 * steps pairs, the last of
\* which ends one token behind end.
C18_Witness ==
    /\ GenReturned
    /\ gen_args.steps >= 2
    /\ gen_args.start < gen_args.stop
    /\ Len(yielded) = 2 * gen_args.steps
    /\ yielded[Len(yielded)][2] = gen_args.stop + 1

(* ------------------------------------------------------------------ *)
(* Claims about repair_concurrency <= 0 (checked under Spec)           *)
(* ------------------------------------------------------------------ *)
\* the pairs the generator of the current owned token yields in all
AllSubRanges ==
    gen_drain(get_sub_range_generator(gen_args.start, gen_args.stop, gen_args.steps),
              MaxYield)

\* C19: with repair_concurrency <= 0 the test of line 265 never fires:
\* collect_results is never entered from the batch test, nothing of the
\* current owned token is collected before the generator is exhausted, and
\* the final collect_results starts with one uncollected operation in
\* flight for every sub-range of that owned token.
C19_UnboundedBatch ==
    repair_concurrency <= 0
        => /\ collect_from # "batch"
           /\ \A p \in DOMAIN procs :
                  (procs[p].tok = token_num /\ procs[p].collected)
                      => gen.pc = "done" /\ pc # "for_sub"
           /\ pc = "for_sub" =>
                  /\ Len(command_results) = Len(yielded)
                  /\ \A i \in DOMAIN command_results :
                         ~procs[command_results[i]].collected
           /\ (pc = "collect" /\ ci = 1 /\ pending2 = command_results) =>
                  /\ Len(command_results) = Len(AllSubRanges)
                  /\ Uncollected = {command_results[i] : i \in DOMAIN command_results}
                  /\ \A i \in DOMAIN command_results :
                         /\ procs[command_results[i]].tok = token_num
                         /\ procs[command_results[i]].range = AllSubRanges[i]

\* C19 witness: with repair_concurrency <= 0 the final collect_results
\* starts with three operations in flight, one for each of the three
\* sub-ranges of the owned token.
C19_Witness ==
    /\ repair_concurrency <= 0
    /\ pc = "collect"
    /\ collect_from = "final"
    /\ ci = 1
    /\ Len(AllSubRanges) = 3
    /\ Cardinality(Uncollected) = 3

====
